---- MODULE Spec2Model ----
(***************************************************************************)
(* Model of entrypoint.py of super-action: the pipeline run() that merges  *)
(* preset and custom steps, generates a workflow and an id->index map,     *)
(* runs the workflow with 'act', and correlates the results through the    *)
(* parser script.  Strings whose characters the code inspects (uses        *)
(* references, synthetic ids, output paths) are sequences of one-character *)
(* strings; strings the code only passes on are TLA+ strings.              *)
(***************************************************************************)
EXTENDS Integers, Sequences, FiniteSets, TLC

\* ------------------------------------------------------------------ bounds
MaxPresets == 1
MaxCustom == 1
MaxIdLen == 12

\* ---------------------------------------------------------- string helpers
Digits == <<"0", "1", "2", "3", "4", "5", "6", "7", "8", "9">>

\* str(i) of a non-negative integer, as the f-strings of lines 122, 126 print it.
RECURSIVE Dec(_)
Dec(n) == IF n < 10 THEN <<Digits[n + 1]>> ELSE Dec(n \div 10) \o <<Digits[(n % 10) + 1]>>

SetMin(S) == CHOOSE x \in S : \A y \in S : x <= y
SetMax(S) == CHOOSE x \in S : \A y \in S : x >= y

\* s.split(c)[0]: the part of s before the first c, all of s when there is none.
SplitFirst(s, c) ==
    LET at == {k \in 1..Len(s) : s[k] = c}
    IN  IF at = {} THEN s ELSE SubSeq(s, 1, SetMin(at) - 1)

\* s.replace(a, b) for one-character a and b.
Replace(s, a, b) == [k \in 1..Len(s) |-> IF s[k] = a THEN b ELSE s[k]]

\* " ".join(s.split()).strip(): runs of blanks collapse to one, the ends are trimmed.
RECURSIVE Collapse(_, _)
Collapse(s, pendingBlank) ==
    IF s = <<>> THEN <<>>
    ELSE IF Head(s) = " " THEN Collapse(Tail(s), TRUE)
    ELSE (IF pendingBlank THEN <<" ">> ELSE <<>>) \o <<Head(s)>> \o Collapse(Tail(s), FALSE)

RECURSIVE DropLeadingBlanks(_)
DropLeadingBlanks(s) ==
    IF s # <<>> /\ Head(s) = " " THEN DropLeadingBlanks(Tail(s)) ELSE s

CleanName(s) == Collapse(DropLeadingBlanks(s), FALSE)

\* ------------------------------------------------------------- step specs
\* An optional string field of a step mapping: dict.get() gives None when absent.
Absent == [some |-> FALSE, s |-> <<>>]
Some(chars) == [some |-> TRUE, s |-> chars]
\* Python truthiness of the value dict.get() returned: None and "" are falsy.
Truthy(o) == o.some /\ o.s # <<>>

Step(u, r, n) == [mapping |-> TRUE, uses |-> u, run |-> r, name |-> n]
\* A list item that is no mapping (a bare scalar): it has no .get().
ScalarStep == [mapping |-> FALSE, uses |-> Absent, run |-> Absent, name |-> Absent]

U1 == <<"a", "/", "b", "@", "1">>
Script == <<"e", "c", "h", "o">>

UsesStep == Step(Some(U1), Absent, Absent)
RunStep == Step(Absent, Some(Script), Absent)
BothStep == Step(Some(U1), Some(Script), Absent)
NeitherStep == Step(Absent, Absent, Absent)
FalsyStep == Step(Some(<<>>), Absent, Absent)

\* The step specs the custom list is drawn from.
CustomSteps == {UsesStep, RunStep, BothStep, NeitherStep, FalsyStep, ScalarStep}

\* ----------------------------------------------------- synthetic ids, steps
ActionPrefix == <<"a", "c", "t", "i", "o", "n", "_">>
RunToken == <<"r", "u", "n">>

action_name_part(action_uses) == Replace(SplitFirst(action_uses, "@"), "/", "-")

\* The id without the '_' that ends the index.
UsesId_NoSeparator(i, action_uses) == ActionPrefix \o Dec(i) \o action_name_part(action_uses)

UsesId(i, action_uses) == ActionPrefix \o Dec(i) \o <<"_">> \o action_name_part(action_uses)
RunId(i) == ActionPrefix \o Dec(i) \o <<"_">> \o RunToken

\* A step is usable when it is a mapping with a truthy 'uses' or a truthy 'run'.
HasUses(action) == action.mapping /\ Truthy(action.uses)
HasRun(action) == action.mapping /\ Truthy(action.run)
ValidStep(action) == HasUses(action) \/ HasRun(action)

action_id(i, action) ==
    IF HasUses(action) THEN UsesId(i, action.uses.s) ELSE RunId(i)

DefaultName(i, action) ==
    IF HasUses(action)
    THEN <<"R", "u", "n", " ">> \o action.uses.s
    ELSE <<"R", "u", "n", " ", "s", "c", "r", "i", "p", "t", " ">> \o Dec(i)

action_name(i, action) ==
    IF Truthy(action.name) THEN action.name.s ELSE DefaultName(i, action)

StepName(i, action) ==
    CleanName(action_name(i, action)) \o <<" ", "(">> \o action_id(i, action) \o <<")">>

\* The 'run' branch tested first: a step with both keys is rendered as a script.
step_dict_RunWins(i, action) ==
    [ id |-> action_id(i, action),
      name |-> StepName(i, action),
      kind |-> IF HasRun(action) THEN "run" ELSE "uses",
      uses |-> IF HasRun(action) THEN <<>> ELSE action.uses.s,
      run |-> IF HasRun(action) THEN action.run.s ELSE <<>>,
      shell |-> IF HasRun(action) THEN "bash" ELSE "",
      always |-> FALSE ]

\* One entry of workflow_steps: the 'uses' branch wins when both keys are truthy.
step_dict(i, action) ==
    [ id |-> action_id(i, action),
      name |-> StepName(i, action),
      kind |-> IF HasUses(action) THEN "uses" ELSE "run",
      uses |-> IF HasUses(action) THEN action.uses.s ELSE <<>>,
      run |-> IF HasUses(action) THEN <<>> ELSE action.run.s,
      shell |-> IF HasUses(action) THEN "" ELSE "bash",
      always |-> FALSE ]

CollectId == <<"c", "o", "l", "l", "e", "c", "t", "_", "r", "e", "s", "u", "l", "t", "s", "_", "s", "t", "e", "p">>

CollectStep ==
    [ id |-> CollectId,
      name |-> <<"C", "o", "l", "l", "e", "c", "t", " ", "R", "e", "s", "u", "l", "t", "s">>,
      kind |-> "run",
      uses |-> <<>>,
      run |-> <<"p", "r", "i", "n", "t", "f">>,
      shell |-> "bash",
      always |-> TRUE ]

\* dict assignment: a later write to the same key replaces the earlier one.
MapPut(m, k, v) == [x \in (DOMAIN m) \cup {k} |-> IF x = k THEN v ELSE m[x]]

DEFAULT_RUNNER_OS == "ubuntu-latest"

NoWorkflow == [runs_on |-> "", job |-> "", steps |-> <<>>]

\* The loop with `continue` in place of fail_action: an unusable step is skipped.
RECURSIVE GenLoop_SkipInvalid(_, _, _, _)
GenLoop_SkipInvalid(merged, i, map, steps) ==
    IF i >= Len(merged)
    THEN [outcome |-> "ok", map |-> map, steps |-> steps]
    ELSE LET action == merged[i + 1]
         IN  IF ~ValidStep(action)
             THEN GenLoop_SkipInvalid(merged, i + 1, map, steps)
             ELSE GenLoop_SkipInvalid(merged, i + 1,
                                      MapPut(map, action_id(i, action), i),
                                      Append(steps, step_dict(i, action)))

\* The loop of generate_workflow_and_map from index i on (0-based, as enumerate
\* counts): "invalid" is fail_action at the first step with neither key, "crash"
\* the AttributeError of .get() on an item that is no mapping.
RECURSIVE GenLoop(_, _, _, _)
GenLoop(merged, i, map, steps) ==
    IF i >= Len(merged)
    THEN [outcome |-> "ok", map |-> map, steps |-> steps]
    ELSE LET action == merged[i + 1]
         IN  IF ~action.mapping
             THEN [outcome |-> "crash", map |-> map, steps |-> steps]
             ELSE IF ~ValidStep(action)
             THEN [outcome |-> "invalid", map |-> map, steps |-> steps]
             ELSE GenLoop(merged, i + 1,
                          MapPut(map, action_id(i, action), i),
                          Append(steps, step_dict(i, action)))

generate_workflow_and_map(merged, runner_os) ==
    LET r == GenLoop(merged, 0, <<>>, <<>>)
    IN  [ outcome |-> r.outcome,
          workflow_dict |-> [runs_on |-> runner_os, job |-> "dynamic_job",
                             steps |-> Append(r.steps, CollectStep)],
          id_index_map |-> r.map ]

\* ------------------------------------------------------------------ inputs
SeqUpTo(S, n) == UNION {[1..k -> S] : k \in 0..n}

\* An input read from the environment, as yaml.safe_load sees it: not given (None
\* or ""), text that is no YAML, YAML that is no sequence, or a sequence.
NoInput == [kind |-> "absent", items |-> <<>>]
BadYaml == [kind |-> "bad_yaml", items |-> <<>>]
NotAList == [kind |-> "not_list", items |-> <<>>]
ListInput(items) == [kind |-> "list", items |-> items]

\* The preset catalog under PRESETS_DIR: "lint" holds two steps, "ghost" has no
\* file, "broken" holds text that is no JSON, "scalar" holds JSON that is no list.
PresetNames == {"lint", "ghost", "broken", "scalar"}

preset_file(name) ==
    CASE name = "lint" -> [kind |-> "list", items |-> <<UsesStep, RunStep>>]
      [] name = "broken" -> [kind |-> "bad_json", items |-> <<>>]
      [] name = "scalar" -> [kind |-> "not_list", items |-> <<>>]
      [] OTHER -> [kind |-> "missing", items |-> <<>>]

PresetWarning(name) ==
    CASE preset_file(name).kind = "missing" -> {"warning: preset file not found"}
      [] preset_file(name).kind = "bad_json" -> {"warning: preset file is not JSON"}
      [] preset_file(name).kind = "not_list" -> {"warning: preset file is not a list"}
      [] OTHER -> {}

RECURSIVE ExtendFromPresets(_)
ExtendFromPresets(names) ==
    IF names = <<>> THEN <<>>
    ELSE preset_file(Head(names)).items \o ExtendFromPresets(Tail(names))

\* load_presets: fail_action on input that is no YAML sequence; a preset that is
\* missing or malformed is warned about and skipped.
load_presets(preset_names_yaml) ==
    CASE preset_names_yaml.kind = "absent" ->
            [outcome |-> "ok", actions |-> <<>>, log |-> {}]
      [] preset_names_yaml.kind = "list" ->
            [ outcome |-> "ok",
              actions |-> ExtendFromPresets(preset_names_yaml.items),
              log |-> UNION {PresetWarning(preset_names_yaml.items[k]) :
                               k \in 1..Len(preset_names_yaml.items)} ]
      [] OTHER ->
            [outcome |-> "fail", actions |-> <<>>, log |-> {"error: presets input"}]

load_custom_actions(action_list_yaml) ==
    CASE action_list_yaml.kind = "absent" ->
            [outcome |-> "ok", actions |-> <<>>, log |-> {}]
      [] action_list_yaml.kind = "list" ->
            [outcome |-> "ok", actions |-> action_list_yaml.items, log |-> {}]
      [] OTHER ->
            [outcome |-> "fail", actions |-> <<>>, log |-> {"error: action_list input"}]

\* custom_actions + presets
Merge_Swapped(p, c) == c \o p

\* presets + custom_actions
Merge(p, c) == p \o c

PresetInputs ==
    {NoInput, BadYaml, NotAList} \cup {ListInput(l) : l \in SeqUpTo(PresetNames, MaxPresets)}
CustomInputs ==
    {NoInput, BadYaml, NotAList} \cup {ListInput(l) : l \in SeqUpTo(CustomSteps, MaxCustom)}

\* `not x` of an input string: None and "" are falsy.
Given(input) == input.kind # "absent"

\* results_output_file values: unset, a relative path under a directory, a
\* path with a parent-directory segment, an absolute path.
NoPath == <<>>
OutputFiles == {NoPath, <<"r", "/", "o">>, <<".", ".", "/", "x">>, <<"/", "o">>}

\* Path(p).is_absolute() on POSIX
IsAbsolute(p) == p # <<>> /\ p[1] = "/"
\* ".." in p
HasDotDot(p) == \E k \in 1..(Len(p) - 1) : p[k] = "." /\ p[k + 1] = "."
\* Only the absolute-path half of the check.
Rejected_AbsoluteOnly(p) == IsAbsolute(p)

Rejected(p) == IsAbsolute(p) \/ HasDotDot(p)

\* Path(p).parent of a relative path
Parent(p) ==
    LET at == {k \in 1..Len(p) : p[k] = "/"}
    IN  IF at = {} THEN <<".">> ELSE SubSeq(p, 1, SetMax(at) - 1)

\* -------------------------------------------------------------- temp files
MERGED_ACTIONS_FILE == "merged_actions.yaml"
ID_INDEX_MAP_FILE == "id_index_map.json"
RESULTS_FILE == "results.json"
TEMP_WORKFLOW_FILE == "dynamic_workflow.yml"
TempFiles == {MERGED_ACTIONS_FILE, ID_INDEX_MAP_FILE, RESULTS_FILE, TEMP_WORKFLOW_FILE}

\* A file of TEMP_DIR: whether it is there, whether this invocation wrote it
\* (fresh) or an earlier one left it, and whether its text is valid JSON/YAML.
NoFile == [exists |-> FALSE, fresh |-> FALSE, valid |-> FALSE]
Written(valid) == [exists |-> TRUE, fresh |-> TRUE, valid |-> valid]

\* ------------------------------------------------------------ parser output
EmptyArray == <<"[", "]">>
Unset == <<"?">>

\* What parse_results.py may print: an array, nothing, NaN (which json.loads
\* accepts although it is no JSON), a truncated array.
ParserStdouts ==
    { <<"[", "0", "]", "\n">>, <<>>, <<"N", "a", "N", "\n">>, <<"[", "0", ",", "\n">> }

IsSpace(c) == c \in {" ", "\n"}

RECURSIVE LStrip(_)
LStrip(s) == IF s # <<>> /\ IsSpace(Head(s)) THEN LStrip(Tail(s)) ELSE s
RECURSIVE RStrip(_)
RStrip(s) == IF s # <<>> /\ IsSpace(s[Len(s)]) THEN RStrip(SubSeq(s, 1, Len(s) - 1)) ELSE s
\* str.strip()
Strip(s) == RStrip(LStrip(s))

\* The texts of this model that are JSON (RFC 8259).
ValidJSON(s) == s \in {EmptyArray, <<"[", "0", "]">>}
\* json.loads raises no JSONDecodeError: Python also accepts NaN and Infinity.
json_loads_ok(s) == ValidJSON(s) \/ s = <<"N", "a", "N">>

\* The parser's output taken as it is, without the json.loads gate.
parser_result_NoGate(spawned, returncode, stdout) ==
    IF ~spawned \/ returncode # 0 THEN EmptyArray ELSE Strip(stdout)

\* results_json_str of process_results once the parser has run: check=True turns a
\* non-zero exit into CalledProcessError, any other exception is caught as well.
parser_result(spawned, returncode, stdout) ==
    IF ~spawned \/ returncode # 0 THEN EmptyArray
    ELSE IF json_loads_ok(Strip(stdout)) THEN Strip(stdout)
    ELSE EmptyArray

\* ---------------------------------------------------------------- the state
VARIABLES
    pc,                         \* where run() stands
    exit_status,                \* the process's exit code, -1 while it runs
    failed_in,                  \* the function in which the run aborted
    input_presets_yaml, input_action_list_yaml,
    input_results_output_file, input_display_results,
    presets, custom_actions, merged_actions,
    workflow_dict, id_index_map,
    tmp,                        \* the files of TEMP_DIR
    act,                        \* the engine subprocess
    parser,                     \* the parser subprocess
    results_json_str,
    outputs,                    \* what this invocation appended to GITHUB_OUTPUT
    workspace,                  \* what this invocation created under the workspace
    calls,                      \* the functions run() has called, in order
    log                         \* the messages printed to stderr

inputs == <<input_presets_yaml, input_action_list_yaml,
            input_results_output_file, input_display_results>>
locals == <<presets, custom_actions, merged_actions>>
generated == <<workflow_dict, id_index_map>>
vars == <<pc, exit_status, failed_in, inputs, locals, generated, tmp, act, parser,
          results_json_str, outputs, workspace, calls, log>>

NoAct == [launched |-> FALSE, terminated |-> FALSE, exit_code |-> 0, doc |-> NoWorkflow]
NoParser == [started |-> FALSE, spawned |-> FALSE, returncode |-> 0, stdout |-> <<>>]
NoEffect == [dirs |-> {}, files |-> {}]

\* The locals of run() before anything has been read.
Fresh ==
    /\ pc = "start"
    /\ exit_status = -1
    /\ failed_in = ""
    /\ input_presets_yaml = NoInput
    /\ input_action_list_yaml = NoInput
    /\ input_results_output_file = NoPath
    /\ input_display_results = TRUE
    /\ presets = <<>>
    /\ custom_actions = <<>>
    /\ merged_actions = <<>>
    /\ workflow_dict = NoWorkflow
    /\ id_index_map = <<>>
    /\ act = NoAct
    /\ parser = NoParser
    /\ results_json_str = Unset
    /\ outputs = <<>>
    /\ workspace = NoEffect
    /\ calls = <<>>
    /\ log = {}

Init ==
    /\ Fresh
    /\ tmp = [f \in TempFiles |-> NoFile]

\* --------------------------------------------------------------- operations
\* fail_action, or an exception nothing catches: the process exits with status 1.
Abort(where, message) ==
    /\ pc' = "exited"
    /\ exit_status' = 1
    /\ failed_in' = where
    /\ log' = log \cup {message}

\* run(), lines 287-302: read the inputs; at least one step source must be given.
Start ==
    /\ pc = "start"
    /\ \E p \in PresetInputs, c \in CustomInputs, o \in OutputFiles, d \in BOOLEAN :
          /\ input_presets_yaml' = p
          /\ input_action_list_yaml' = c
          /\ input_results_output_file' = o
          /\ input_display_results' = d
          /\ IF ~Given(p) /\ ~Given(c)
             THEN Abort("run", "error: no presets and no action_list")
             ELSE /\ pc' = "load"
                  /\ UNCHANGED <<exit_status, failed_in, log>>
    /\ UNCHANGED <<locals, generated, tmp, act, parser, results_json_str, outputs,
                   workspace, calls>>

\* Lines 305-307 without the check of line 309: an empty merged list goes on.
LoadAndMerge_NoEmptyCheck ==
    /\ pc = "load"
    /\ LET p == load_presets(input_presets_yaml)
           c == load_custom_actions(input_action_list_yaml)
       IN  IF p.outcome = "fail"
           THEN /\ Abort("load_presets", "error: presets input")
                /\ calls' = Append(calls, "load_presets")
                /\ UNCHANGED locals
           ELSE IF c.outcome = "fail"
           THEN /\ Abort("load_custom_actions", "error: action_list input")
                /\ calls' = calls \o <<"load_presets", "load_custom_actions">>
                /\ presets' = p.actions
                /\ UNCHANGED <<custom_actions, merged_actions>>
           ELSE /\ presets' = p.actions
                /\ custom_actions' = c.actions
                /\ merged_actions' = Merge(p.actions, c.actions)
                /\ calls' = calls \o <<"load_presets", "load_custom_actions">>
                /\ pc' = "write_merged"
                /\ log' = log \cup p.log
                /\ UNCHANGED <<exit_status, failed_in>>
    /\ UNCHANGED <<inputs, generated, tmp, act, parser, results_json_str, outputs,
                   workspace>>

\* run(), lines 305-310: load both sources, concatenate, refuse an empty list.
LoadAndMerge ==
    /\ pc = "load"
    /\ LET p == load_presets(input_presets_yaml)
           c == load_custom_actions(input_action_list_yaml)
       IN  IF p.outcome = "fail"
           THEN /\ Abort("load_presets", "error: presets input")
                /\ calls' = Append(calls, "load_presets")
                /\ UNCHANGED locals
           ELSE IF c.outcome = "fail"
           THEN /\ Abort("load_custom_actions", "error: action_list input")
                /\ calls' = calls \o <<"load_presets", "load_custom_actions">>
                /\ presets' = p.actions
                /\ UNCHANGED <<custom_actions, merged_actions>>
           ELSE /\ presets' = p.actions
                /\ custom_actions' = c.actions
                /\ merged_actions' = Merge(p.actions, c.actions)
                /\ calls' = calls \o <<"load_presets", "load_custom_actions">>
                /\ IF Merge(p.actions, c.actions) = <<>>
                   THEN /\ pc' = "exited"
                        /\ exit_status' = 1
                        /\ failed_in' = "run"
                        /\ log' = log \cup p.log \cup {"error: no actions found"}
                   ELSE /\ pc' = "write_merged"
                        /\ log' = log \cup p.log
                        /\ UNCHANGED <<exit_status, failed_in>>
    /\ UNCHANGED <<inputs, generated, tmp, act, parser, results_json_str, outputs,
                   workspace>>

\* run(), lines 313-318: dump the merged list to MERGED_ACTIONS_FILE.
WriteMerged ==
    /\ pc = "write_merged"
    /\ \/ /\ tmp' = [tmp EXCEPT ![MERGED_ACTIONS_FILE] = Written(TRUE)]
          /\ pc' = "generate"
          /\ UNCHANGED <<exit_status, failed_in, log>>
       \/ /\ Abort("run", "error: cannot write merged actions file")
          /\ UNCHANGED tmp
    /\ UNCHANGED <<inputs, locals, generated, act, parser, results_json_str, outputs,
                   workspace, calls>>

\* run(), line 321: the call of generate_workflow_and_map, outside any try.
Generate ==
    /\ pc = "generate"
    /\ calls' = Append(calls, "generate_workflow_and_map")
    /\ LET g == generate_workflow_and_map(merged_actions, DEFAULT_RUNNER_OS)
       IN  IF g.outcome = "ok"
           THEN /\ workflow_dict' = g.workflow_dict
                /\ id_index_map' = g.id_index_map
                /\ pc' = "write_workflow"
                /\ UNCHANGED <<exit_status, failed_in, log>>
           ELSE /\ Abort("generate_workflow_and_map",
                         IF g.outcome = "invalid" THEN "error: invalid step definition"
                                                  ELSE "traceback: AttributeError")
                /\ UNCHANGED generated
    /\ UNCHANGED <<inputs, locals, tmp, act, parser, results_json_str, outputs, workspace>>

\* run(), lines 322-330: write the workflow file, then the map file.
WriteWorkflowAndMap ==
    /\ pc = "write_workflow"
    /\ \/ /\ tmp' = [tmp EXCEPT ![TEMP_WORKFLOW_FILE] = Written(TRUE),
                                ![ID_INDEX_MAP_FILE] = Written(TRUE)]
          /\ pc' = "run_act"
          /\ UNCHANGED <<exit_status, failed_in, log>>
       \/ /\ tmp' = [tmp EXCEPT ![TEMP_WORKFLOW_FILE] = Written(TRUE)]
          /\ Abort("run", "error: cannot write workflow/map files")
       \/ /\ Abort("run", "error: cannot write workflow/map files")
          /\ UNCHANGED tmp
    /\ UNCHANGED <<inputs, locals, generated, act, parser, results_json_str, outputs,
                   workspace, calls>>

\* What the workflow's last step leaves in RESULTS_FILE: nothing when the engine
\* stops before it, else the steps context, which may or may not be JSON.
EngineResults == {"none", "valid", "invalid"}

\* run_act followed by fail_action on a non-zero exit code of the engine.
RunAct_FatalOnFailure ==
    /\ pc = "run_act"
    /\ calls' = Append(calls, "run_act")
    /\ \/ /\ Abort("run_act", "error: failed to execute act")
          /\ UNCHANGED <<act, tmp>>
       \/ \E code \in {0, 1}, res \in EngineResults :
             /\ act' = [launched |-> TRUE, terminated |-> TRUE, exit_code |-> code,
                        doc |-> workflow_dict]
             /\ tmp' = IF res = "none" THEN tmp
                       ELSE [tmp EXCEPT ![RESULTS_FILE] = Written(res = "valid")]
             /\ IF code # 0
                THEN Abort("run", "error: act failed")
                ELSE /\ pc' = "process_results"
                     /\ UNCHANGED <<exit_status, failed_in, log>>
    /\ UNCHANGED <<inputs, locals, generated, parser, results_json_str, outputs, workspace>>

\* run_act and lines 333-335: the engine reads TEMP_WORKFLOW_FILE and runs to its
\* end; only a failure to start it is fatal.
RunAct ==
    /\ pc = "run_act"
    /\ calls' = Append(calls, "run_act")
    /\ \/ /\ Abort("run_act", "error: failed to execute act")
          /\ UNCHANGED <<act, tmp>>
       \/ \E code \in {0, 1}, res \in EngineResults :
             /\ act' = [launched |-> TRUE, terminated |-> TRUE, exit_code |-> code,
                        doc |-> workflow_dict]
             /\ tmp' = IF res = "none" THEN tmp
                       ELSE [tmp EXCEPT ![RESULTS_FILE] = Written(res = "valid")]
             /\ log' = IF code # 0 THEN log \cup {"warning: act failed"} ELSE log
             /\ pc' = "process_results"
             /\ UNCHANGED <<exit_status, failed_in>>
    /\ UNCHANGED <<inputs, locals, generated, parser, results_json_str, outputs, workspace>>

MissingWarnings ==
    {"warning: required files not found"}
    \cup (IF tmp[RESULTS_FILE].exists THEN {} ELSE {"warning: missing results.json"})
    \cup (IF tmp[ID_INDEX_MAP_FILE].exists THEN {} ELSE {"warning: missing id_index_map.json"})
    \cup (IF tmp[MERGED_ACTIONS_FILE].exists THEN {} ELSE {"warning: missing merged_actions.yaml"})

AllFilesThere ==
    /\ tmp[RESULTS_FILE].exists
    /\ tmp[ID_INDEX_MAP_FILE].exists
    /\ tmp[MERGED_ACTIONS_FILE].exists

\* process_results, called at line 338.
ProcessResults ==
    /\ pc = "process_results"
    /\ calls' = Append(calls, "process_results")
    /\ IF AllFilesThere
       THEN \E spawned \in BOOLEAN, code \in {0, 1}, out \in ParserStdouts :
               /\ (~spawned => code = 0 /\ out = <<>>)
               /\ parser' = [started |-> TRUE, spawned |-> spawned,
                             returncode |-> code, stdout |-> out]
               /\ results_json_str' = parser_result(spawned, code, out)
               /\ log' = log \cup
                         (IF ~spawned THEN {"error: cannot run parser"}
                          ELSE IF code # 0 THEN {"error: parser failed"}
                          ELSE IF ~json_loads_ok(Strip(out)) THEN {"error: results JSON invalid"}
                          ELSE {})
       ELSE /\ results_json_str' = EmptyArray
            /\ log' = log \cup MissingWarnings
            /\ UNCHANGED parser
    /\ pc' = "handle_outputs"
    /\ UNCHANGED <<exit_status, failed_in, inputs, locals, generated, tmp, act, outputs,
                   workspace>>

\* set_output(name, value): appends to the file GITHUB_OUTPUT names; without the
\* variable ("unset"), or when the write fails ("write_error"), it warns and returns.
OutputChannels == {"written", "unset", "write_error"}

set_output(channel, name, value) ==
    CASE channel = "written" ->
            [outputs |-> <<[name |-> name, value |-> value]>>, log |-> {}]
      [] channel = "unset" ->
            [outputs |-> <<>>, log |-> {"warning: GITHUB_OUTPUT not set"}]
      [] OTHER ->
            [outputs |-> <<>>, log |-> {"warning: cannot write GITHUB_OUTPUT"}]

\* display_results_log: prints the results in a log group when enabled.
display_results_log(display_enabled) ==
    IF display_enabled THEN {"group: collected results"} ELSE {}

\* How the file system answers the save: the file is written, mkdir fails, or the
\* directory is made and open fails.
SaveOutcomes == {"saved", "mkdir_error", "open_error"}

\* save_results_to_file: nothing without a path; a rejected path is logged and
\* skipped; any failure to write is a warning.
save_results_to_file(results, output_file, outcome) ==
    IF output_file = NoPath
    THEN [workspace |-> NoEffect, log |-> {}]
    ELSE IF Rejected(output_file)
    THEN [workspace |-> NoEffect, log |-> {"error: results_output_file must be relative"}]
    ELSE CASE outcome = "saved" ->
                [ workspace |-> [dirs |-> {Parent(output_file)},
                                 files |-> {[path |-> output_file, text |-> results]}],
                  log |-> {} ]
           [] outcome = "open_error" ->
                [ workspace |-> [dirs |-> {Parent(output_file)}, files |-> {}],
                  log |-> {"warning: failed to save results"} ]
           [] OTHER ->
                [workspace |-> NoEffect, log |-> {"warning: failed to save results"}]

\* run(), lines 341-345: set the output, display, save, and return (exit code 0).
HandleOutputs ==
    /\ pc = "handle_outputs"
    /\ calls' = calls \o <<"set_output", "display_results_log", "save_results_to_file">>
    /\ \E channel \in OutputChannels, outcome \in SaveOutcomes :
          LET o == set_output(channel, "results", results_json_str)
              d == display_results_log(input_display_results)
              f == save_results_to_file(results_json_str, input_results_output_file, outcome)
          IN  /\ outputs' = outputs \o o.outputs
              /\ workspace' = f.workspace
              /\ log' = log \cup o.log \cup d \cup f.log
    /\ pc' = "exited"
    /\ exit_status' = 0
    /\ UNCHANGED <<failed_in, inputs, locals, generated, tmp, act, parser,
                   results_json_str>>

\* The action is invoked again, in a new process with the same TEMP_DIR: what the
\* earlier invocation left there is still there, and no longer fresh.
NextInvocation ==
    /\ pc = "exited"
    /\ pc' = "start"
    /\ exit_status' = -1
    /\ failed_in' = ""
    /\ input_presets_yaml' = NoInput
    /\ input_action_list_yaml' = NoInput
    /\ input_results_output_file' = NoPath
    /\ input_display_results' = TRUE
    /\ presets' = <<>>
    /\ custom_actions' = <<>>
    /\ merged_actions' = <<>>
    /\ workflow_dict' = NoWorkflow
    /\ id_index_map' = <<>>
    /\ act' = NoAct
    /\ parser' = NoParser
    /\ results_json_str' = Unset
    /\ outputs' = <<>>
    /\ workspace' = NoEffect
    /\ calls' = <<>>
    /\ log' = {}
    /\ tmp' = [f \in TempFiles |-> [tmp[f] EXCEPT !.fresh = FALSE]]

Next ==
    \/ Start
    \/ LoadAndMerge
    \/ WriteMerged
    \/ Generate
    \/ WriteWorkflowAndMap
    \/ RunAct
    \/ ProcessResults
    \/ HandleOutputs
    \/ NextInvocation

Spec == Init /\ [][Next]_vars

\* ------------------------------------------- generate_workflow_and_map alone
\* Longer lists for the id scheme: run steps with a padded name, and at up to two
\* places a 'uses' step whose reference is drawn from IdTokens (references that
\* start with a digit, that differ only in '/' against '-', one that is only a
\* version, and the empty one).
IdTokens ==
    { <<"a">>, <<"1", "a">>, <<"1", "_", "a">>, <<"a", "/", "b", "@", "1">>,
      <<"a", "-", "b">>, <<"@", "1">>, <<>> }

FillerStep == Step(Absent, Some(Script), Some(<<" ", "m", "y", " ", " ", "j", "o", "b", " ">>))

IdList(n, i, j, u, v) ==
    [k \in 1..n |-> IF k = i THEN Step(Some(u), Absent, Absent)
                    ELSE IF k = j THEN Step(Some(v), Absent, Absent)
                    ELSE FillerStep]

IdLists ==
    {IdList(n, i, j, u, v) : n \in {1, 2, MaxIdLen}, i \in 1..MaxIdLen, j \in 1..MaxIdLen,
                             u \in IdTokens, v \in IdTokens}

\* run() about to call generate_workflow_and_map (line 321) on an action_list
\* of IdLists, no presets given, the merged list written.
IdInit ==
    /\ \E l \in IdLists :
          /\ input_action_list_yaml = ListInput(l)
          /\ custom_actions = l
          /\ merged_actions = l
    /\ pc = "generate"
    /\ exit_status = -1
    /\ failed_in = ""
    /\ input_presets_yaml = NoInput
    /\ input_results_output_file = NoPath
    /\ input_display_results = TRUE
    /\ presets = <<>>
    /\ workflow_dict = NoWorkflow
    /\ id_index_map = <<>>
    /\ tmp = [f \in TempFiles |-> IF f = MERGED_ACTIONS_FILE THEN Written(TRUE) ELSE NoFile]
    /\ act = NoAct
    /\ parser = NoParser
    /\ results_json_str = Unset
    /\ outputs = <<>>
    /\ workspace = NoEffect
    /\ calls = <<"load_presets", "load_custom_actions">>
    /\ log = {}

IdNext == Generate \/ WriteWorkflowAndMap

IdSpec == IdInit /\ [][IdNext]_vars

\* ------------------------------------------------------------------ claims
Called(f) == \E k \in 1..Len(calls) : calls[k] = f

\* The calls of run() in a run that reaches its end.
Pipeline ==
    <<"load_presets", "load_custom_actions", "generate_workflow_and_map", "run_act",
      "process_results", "set_output", "display_results_log", "save_results_to_file">>

HasUnusableStep == \E k \in 1..Len(merged_actions) : ~ValidStep(merged_actions[k])

\* C1: when some step of the merged list has neither a truthy 'uses' nor a truthy
\* 'run', this invocation writes neither the workflow file nor the map file and
\* never launches the engine, and once generate_workflow_and_map has been called
\* the run has exited with status 1 from inside it.
C1_InvalidStepAborts ==
    HasUnusableStep =>
        /\ ~tmp[TEMP_WORKFLOW_FILE].fresh
        /\ ~tmp[ID_INDEX_MAP_FILE].fresh
        /\ workflow_dict = NoWorkflow
        /\ ~act.launched
        /\ ~Called("run_act")
        /\ Called("generate_workflow_and_map") =>
              /\ pc = "exited"
              /\ exit_status = 1
              /\ failed_in = "generate_workflow_and_map"

\* An unusable step behind a usable one has stopped the run in the generator.
C1_Witness ==
    /\ pc = "exited"
    /\ failed_in = "generate_workflow_and_map"
    /\ exit_status = 1
    /\ Len(merged_actions) >= 2
    /\ ValidStep(merged_actions[1])
    /\ HasUnusableStep

\* C2: for a non-empty merged list of N usable steps, the N generated ids are
\* pairwise distinct, the map has exactly N entries, and its values are the
\* indices 0..N-1, each exactly once.
C2_IdsDistinct ==
    (pc = "write_workflow" /\ merged_actions # <<>>) =>
        LET N == Len(merged_actions)
            ids == [k \in 1..N |-> workflow_dict.steps[k].id]
        IN  /\ Len(workflow_dict.steps) = N + 1
            /\ \A k, m \in 1..N : k # m => ids[k] # ids[m]
            /\ Cardinality(DOMAIN id_index_map) = N
            /\ {id_index_map[x] : x \in DOMAIN id_index_map} = 0..(N - 1)
            /\ \A i \in 0..(N - 1) :
                  Cardinality({x \in DOMAIN id_index_map : id_index_map[x] = i}) = 1

\* Two 'uses' steps with the same token, one at a two-digit index, the token
\* starting with a digit.
C2_Witness ==
    /\ pc = "write_workflow"
    /\ \E k, m \in 1..Len(merged_actions) :
          /\ k < m
          /\ m - 1 >= 10
          /\ HasUses(merged_actions[k])
          /\ HasUses(merged_actions[m])
          /\ merged_actions[k].uses.s = merged_actions[m].uses.s
          /\ merged_actions[k].uses.s[1] = "1"

Loaded == Called("load_custom_actions") /\ failed_in # "load_custom_actions"

\* C3: the merged list is the preset steps followed by the custom steps, nothing
\* reordered, dropped or duplicated; the workflow's steps are the merged steps
\* rendered in order, then collect_results_step as the single last entry; and the
\* id of workflow step i maps to i.
C3_MergeOrderPreserved ==
    /\ Loaded =>
          /\ Len(merged_actions) = Len(presets) + Len(custom_actions)
          /\ \A k \in 1..Len(presets) : merged_actions[k] = presets[k]
          /\ \A k \in 1..Len(custom_actions) :
                merged_actions[Len(presets) + k] = custom_actions[k]
          /\ custom_actions = input_action_list_yaml.items
    /\ workflow_dict # NoWorkflow =>
          LET N == Len(merged_actions)
              steps == workflow_dict.steps
          IN  /\ Len(steps) = N + 1
              /\ steps[N + 1].id = CollectId
              /\ \A k \in 1..N :
                    /\ steps[k].id # CollectId
                    /\ steps[k].id \in DOMAIN id_index_map
                    /\ id_index_map[steps[k].id] = k - 1
                    /\ IF HasUses(merged_actions[k])
                       THEN steps[k].kind = "uses" /\ steps[k].uses = merged_actions[k].uses.s
                       ELSE steps[k].kind = "run" /\ steps[k].run = merged_actions[k].run.s
    /\ act.launched => act.doc = workflow_dict

\* Two preset steps and a custom step have reached the engine.
C3_Witness ==
    /\ act.launched
    /\ Len(presets) = 2
    /\ Len(custom_actions) >= 1
    /\ presets[1] # custom_actions[1]

Processed == Called("process_results")

MissingFileWarned(f, message) == tmp[f].exists \/ message \in log

\* C4: process_results returns "[]" when a file is missing (no parser started, a
\* warning per missing file), when the parser exits non-zero, and when the
\* parser's output is no valid JSON; what it returns is always valid JSON.
C4_FallbackOnEveryFailure ==
    Processed =>
        /\ ~AllFilesThere =>
              /\ results_json_str = EmptyArray
              /\ ~parser.started
              /\ MissingFileWarned(RESULTS_FILE, "warning: missing results.json")
              /\ MissingFileWarned(ID_INDEX_MAP_FILE, "warning: missing id_index_map.json")
              /\ MissingFileWarned(MERGED_ACTIONS_FILE, "warning: missing merged_actions.yaml")
        /\ (parser.started /\ parser.returncode # 0) => results_json_str = EmptyArray
        /\ (parser.started /\ ~ValidJSON(Strip(parser.stdout))) => results_json_str = EmptyArray
        /\ ValidJSON(results_json_str)
        /\ failed_in = ""

RawInvalid == tmp[RESULTS_FILE].exists /\ ~tmp[RESULTS_FILE].valid

\* C5 as stated: with a raw results file that is no valid JSON the result is "[]",
\* whatever the parser does.
C5_InvalidRawAlwaysFallback ==
    (Processed /\ RawInvalid) => results_json_str = EmptyArray

\* C5 amended: with a raw results file that is no valid JSON, process_results
\* does not raise, and the result is "[]" unless the parser exits 0 and prints
\* text that json.loads accepts, in which case it is that text, stripped.
C5_InvalidRawParserDecides ==
    (Processed /\ RawInvalid) =>
        /\ failed_in = ""
        /\ pc = "exited" => exit_status = 0
        /\ IF /\ parser.started
              /\ parser.spawned
              /\ parser.returncode = 0
              /\ json_loads_ok(Strip(parser.stdout))
           THEN results_json_str = Strip(parser.stdout)
           ELSE results_json_str = EmptyArray

\* The parser repaired an invalid raw file into an array, and printed garbage
\* for another.
C5_Witness ==
    /\ Processed
    /\ RawInvalid
    /\ parser.started
    /\ parser.returncode = 0
    /\ results_json_str = <<"[", "0", "]">>

IsPrefix(a, b) == Len(a) <= Len(b) /\ SubSeq(b, 1, Len(a)) = a

\* C6: once the engine has terminated, whatever its exit code and whatever
\* correlation yields, the run calls process_results, set_output,
\* display_results_log and save_results_to_file in this order, can always take
\* its next step, and exits with 0; an exit status other than 0 is only seen
\* when the engine has not terminated.
C6_BestEffortContinuation ==
    /\ act.terminated =>
          /\ IsPrefix(calls, Pipeline)
          /\ Len(calls) >= 4
          /\ failed_in = ""
          /\ pc = "exited" => (exit_status = 0 /\ calls = Pipeline)
          /\ pc # "exited" => (exit_status = -1 /\ ENABLED Next)
    /\ (pc = "exited" /\ exit_status # 0) => ~act.terminated

\* The engine failed, correlation fell back, and the run ended with 0.
C6_Witness ==
    /\ pc = "exited"
    /\ exit_status = 0
    /\ act.terminated
    /\ act.exit_code = 1
    /\ results_json_str = EmptyArray
    /\ calls = Pipeline

GithubOutputWarned ==
    \/ "warning: GITHUB_OUTPUT not set" \in log
    \/ "warning: cannot write GITHUB_OUTPUT" \in log

\* C7: with a results_output_file that is absolute or contains "..",
\* save_results_to_file writes no file, creates no directory and logs an error;
\* set_output has been called before it with the result of correlation, and the
\* run exits with 0.
C7_RejectedPathSkipsSave ==
    ( /\ Called("save_results_to_file")
      /\ (IsAbsolute(input_results_output_file) \/ HasDotDot(input_results_output_file)) ) =>
        /\ workspace = NoEffect
        /\ "error: results_output_file must be relative" \in log
        /\ pc = "exited"
        /\ exit_status = 0
        /\ calls = Pipeline
        /\ results_json_str =
              (IF parser.started
               THEN parser_result(parser.spawned, parser.returncode, parser.stdout)
               ELSE EmptyArray)
        /\ \/ outputs = <<[name |-> "results", value |-> results_json_str]>>
           \/ outputs = <<>> /\ GithubOutputWarned

\* "../x" was refused after a non-empty result had been set as the output.
C7_Witness ==
    /\ pc = "exited"
    /\ exit_status = 0
    /\ input_results_output_file = <<".", ".", "/", "x">>
    /\ outputs = <<[name |-> "results", value |-> <<"[", "0", "]">>]>>
    /\ workspace = NoEffect

\* C8: when the merged list is empty (no input given, or nothing but unresolved
\* or malformed presets and no custom step), the run has exited with status 1,
\* this invocation has written no file of TEMP_DIR and the engine is not launched.
C8_EmptyMergeAborts ==
    (pc \notin {"start", "load"} /\ merged_actions = <<>>) =>
        /\ pc = "exited"
        /\ exit_status = 1
        /\ \A f \in TempFiles : ~tmp[f].fresh
        /\ ~act.launched
        /\ workflow_dict = NoWorkflow

\* Presets were requested, none resolved, an empty custom list was given.
C8_Witness ==
    /\ pc = "exited"
    /\ exit_status = 1
    /\ Loaded
    /\ input_presets_yaml.kind = "list"
    /\ input_presets_yaml.items # <<>>
    /\ input_action_list_yaml.kind = "list"
    /\ merged_actions = <<>>
    /\ "error: no actions found" \in log

\* C9: the results file the parser runs on was written by the engine in
\* this invocation; when this invocation's engine wrote none, no parser runs
\* and the result is "[]".
C9_NoStaleResults ==
    /\ (parser.started /\ parser.spawned) => tmp[RESULTS_FILE].fresh
    /\ (Processed /\ ~tmp[RESULTS_FILE].fresh) =>
          (~(parser.started /\ parser.spawned) /\ results_json_str = EmptyArray)

HasBoth(action) == HasUses(action) /\ HasRun(action)

\* C10 as stated: in a run that launches the engine every merged step has exactly
\* one of 'uses' and 'run'.
C10_ExactlyOneOfUsesRun ==
    act.launched =>
        \A k \in 1..Len(merged_actions) :
            (HasUses(merged_actions[k]) \/ HasRun(merged_actions[k]))
            /\ ~HasBoth(merged_actions[k])

\* C10 amended: in a run that launches the engine every merged step has at least
\* one of 'uses' and 'run'; a step with both is accepted and reaches the engine
\* as a 'uses' step, its 'run' left out.
C10_AtLeastOneUsesWins ==
    act.launched =>
        /\ Len(act.doc.steps) = Len(merged_actions) + 1
        /\ \A k \in 1..Len(merged_actions) :
              /\ HasUses(merged_actions[k]) \/ HasRun(merged_actions[k])
              /\ HasBoth(merged_actions[k]) =>
                    /\ act.doc.steps[k].kind = "uses"
                    /\ act.doc.steps[k].uses = merged_actions[k].uses.s
                    /\ act.doc.steps[k].run = <<>>

\* A step with both keys has reached the engine.
C10_Witness ==
    /\ act.launched
    /\ \E k \in 1..Len(merged_actions) : HasBoth(merged_actions[k])

====
